---- MODULE Spec2Model ----
(***************************************************************************)
(* LuminaChain wallet core: the Wallet class (src/src/core/wallet.cpp,     *)
(* src/include/core/wallet.h) and the Transaction it creates               *)
(* (src/src/core/transaction.cpp).                                         *)
(*                                                                         *)
(* Amounts are C++ doubles in the source; the model counts them in whole   *)
(* token units (integers), which keeps <, - and == exact.                  *)
(*                                                                         *)
(* Spec      one caller, every public method of Wallet is one step.        *)
(* SpecSeed  the seed phrase: create, recoverFromSeed and getSeedPhrase    *)
(*           with the private encryptSeed / decryptSeed.                   *)
(* SpecTx    one Transaction object: constructor, setStatus, sign,         *)
(*           verifySignature.                                              *)
(* SpecSync  one NetworkSync engine: startSync with its batches and        *)
(*           callbacks, stopSync, setNetworkEndpoint.                      *)
(* SpecConc  two threads inside Wallet::transfer on the same instance,     *)
(*           one step per statement: the class holds no lock.              *)
(***************************************************************************)
EXTENDS Integers, Sequences, FiniteSets, TLC

VARIABLES
    file,             \* the wallet file at m_walletPath
    m_mainAddress,    \* wallet.h:117
    m_balances,       \* wallet.h:119  std::map<std::string,double>
    m_transactions,   \* wallet.h:122  std::vector<std::shared_ptr<Transaction>>
    m_isInitialized,  \* wallet.h:125
    m_isSynchronized, \* wallet.h:126
    lastCall,         \* the last public call: its arguments, result and logged error
    initSucceeded,    \* a load, create or recoverFromSeed has returned true
    openingBalances,  \* m_balances when the wallet became initialized
    pc,               \* SpecConc: each thread's position inside Wallet::transfer
    frame,            \* SpecConc: each thread's arguments and locals
    vault,            \* SpecSeed: the last encryptSeed / decryptSeed call
    tx,               \* SpecTx: a Transaction object (transaction.h:125-133)
    txCall,           \* SpecTx: the last call on tx, its argument and result
    txSigned,         \* SpecTx: a sign call on tx has returned true
    m_networkEndpoint,    \* sync.h:110
    m_status,             \* sync.h:111
    m_progress,           \* sync.h:112  float, kept as an exact fraction
    m_latestBlockHeight,  \* sync.h:113
    m_currentBlockHeight, \* sync.h:114
    m_isSyncing,          \* sync.h:115
    m_callback,           \* sync.h:116
    stack,            \* SpecSync: the startSync activations in progress, innermost last
    syncCall          \* SpecSync: the last NetworkSync call that returned

vars == <<file, m_mainAddress, m_balances, m_transactions, m_isInitialized,
          m_isSynchronized, lastCall, initSucceeded, openingBalances,
          pc, frame, vault, tx, txCall, txSigned,
          m_networkEndpoint, m_status, m_progress, m_latestBlockHeight,
          m_currentBlockHeight, m_isSyncing, m_callback, stack, syncCall>>

engineVars == <<m_networkEndpoint, m_status, m_progress, m_latestBlockHeight,
                m_currentBlockHeight, m_isSyncing, m_callback>>

walletVars == <<m_mainAddress, m_balances, m_transactions, m_isInitialized,
                m_isSynchronized>>

(***************************************************************************)
(* Bounds of the model                                                     *)
(***************************************************************************)
MaxTx == 2        \* transfers are explored until the history holds MaxTx entries
MaxBalance == 3   \* a credit (negative amount) is explored up to this balance

(***************************************************************************)
(* Program constants                                                       *)
(***************************************************************************)
SEED_WORD_COUNT == 12

WALLET_HEADER == "LUMINA_WALLET_DATA"
CREATED_ADDRESS == "LMT1234567890ABCDEFGHIJKLMNOPQRSTUVWXYZ"
DEV_TEAM_ADDRESS == "LMTDEVTEAM123456789ABCDEFGHIJKLMNOPQRSTUVW"
DEFAULT_TOKEN == "LMT"
FIXED_SEED_PHRASE == "abandon ability able about above absent absorb abstract absurd abuse access accident"

\* the dictionary generateSeed draws from, wallet.cpp:25-38
SEED_WORDS == {
    "abandon", "ability", "able", "about", "above", "absent", "absorb", "abstract", "absurd", "abuse",
    "access", "accident", "account", "accuse", "achieve", "acid", "acoustic", "acquire", "across", "act",
    "action", "actor", "actress", "actual", "adapt", "add", "addict", "address", "adjust", "admit",
    "adult", "advance", "advice", "aerobic", "affair", "afford", "afraid", "again", "age", "agent",
    "agree", "ahead", "aim", "air", "airport", "aisle", "alarm", "album", "alcohol", "alert",
    "alien", "all", "alley", "allow", "almost", "alone", "alpha", "already", "also", "alter",
    "always", "amateur", "amazing", "among", "amount", "amused", "analyst", "anchor", "ancient", "anger",
    "angle", "angry", "animal", "ankle", "announce", "annual", "another", "answer", "antenna", "antique",
    "anxiety", "any", "apart", "apology", "appear", "apple", "approve", "april", "arch", "arctic",
    "area", "arena", "argue", "arm", "armed", "armor", "army", "around", "arrange", "arrest",
    "arrive", "arrow", "art", "artefact", "artist", "artwork", "ask", "aspect", "assault", "asset",
    "assist", "assume", "asthma", "athlete", "atom", "attack", "attend", "attitude", "attract", "auction"}

\* what the code logs on each failure path (the only trace of the error kind:
\* every method returns a bare bool or an empty string)
LOG_NOT_INITIALIZED == "Wallet is not initialized"
LOG_ALREADY_INITIALIZED == "Wallet is already initialized"
LOG_INSUFFICIENT_BALANCE == "Insufficient balance for transfer"
LOG_INVALID_SEED == "Invalid seed phrase: must contain exactly 12 words"
LOG_SAVE_FAILED == "Failed to open wallet file for writing"
LOG_NONE == ""

(***************************************************************************)
(* Inputs                                                                  *)
(***************************************************************************)
\* token symbols in std::map key order
TokenOrder == <<"BTC", "LMT">>
Tokens == {TokenOrder[i] : i \in 1..Len(TokenOrder)}
Amounts == {-1, 0, 1, 2}
Recipients == {"LMTB"}
TxIds == {"TX-1", "TX-2"}
Threads == {1, 2}

\* a seed phrase after `iss >> word`: the sequence of its whitespace-separated words
Phrase(n, w) == [i \in 1..n |-> w]
SeedPhrases == {Phrase(0, "abandon"), Phrase(2, "abandon"),
                Phrase(SEED_WORD_COUNT, "abandon"), Phrase(SEED_WORD_COUNT, "zzzz"),
                Phrase(SEED_WORD_COUNT + 1, "abandon")}

(***************************************************************************)
(* Wallet::getBalance, wallet.cpp:143-149                                  *)
(***************************************************************************)
getBalance(balances, tokenSymbol) ==
    IF tokenSymbol \in DOMAIN balances THEN balances[tokenSymbol] ELSE 0

\* m_balances[token] = value (operator[] inserts a missing key)
SetBalance(balances, tokenSymbol, value) ==
    [t \in DOMAIN balances \cup {tokenSymbol} |->
        IF t = tokenSymbol THEN value ELSE balances[t]]

EmptyBalances == [t \in {} |-> 0]

(***************************************************************************)
(* std::string operations the wallet file is read with (positions from 0)  *)
(***************************************************************************)
\* str.substr(pos, n): at most n characters, fewer at the end of str
substr(str, pos, n) ==
    SubSeq(str, pos + 1, IF pos + n > Len(str) THEN Len(str) ELSE pos + n)

\* str.substr(pos)
substrFrom(str, pos) == SubSeq(str, pos + 1, Len(str))

\* str[pos]; "" once pos is past the end
CharAt(str, pos) == substr(str, pos, 1)

\* std::string::npos
npos == -1

\* str.find(ch, pos)
RECURSIVE find(_, _, _)
find(str, ch, pos) ==
    IF pos >= Len(str) THEN npos
    ELSE IF CharAt(str, pos) = ch THEN pos
    ELSE find(str, ch, pos + 1)

(***************************************************************************)
(* Amounts as text.  Amounts are whole numbers of units in this model, so  *)
(* every double below is an integer, exactly representable.                *)
(***************************************************************************)
RECURSIVE Pow10(_)
Pow10(n) == IF n = 0 THEN 1 ELSE 10 * Pow10(n - 1)

Abs(x) == IF x < 0 THEN -x ELSE x

\* the number of decimal digits of n >= 0
RECURSIVE DigitCount(_)
DigitCount(n) == IF n < 10 THEN 1 ELSE 1 + DigitCount(n \div 10)

\* %g drops the trailing zeros of the significand
RECURSIVE StripZeros(_)
StripZeros(n) == IF n # 0 /\ n % 10 = 0 THEN StripZeros(n \div 10) ELSE n

\* std::ostream's default precision: significant digits of `file << double`
PRECISION == 6

\* wallet.cpp:266  file << balance.second: the double in %g style.  Up to
\* PRECISION digits are written as they are; a longer number is rounded
\* (half to even) to PRECISION significant digits and written as
\* d.ddddde+XX.
FormatDouble(x) ==
    IF Abs(x) < Pow10(PRECISION) THEN ToString(x)
    ELSE LET exp10 == DigitCount(Abs(x)) - 1
             unit == Pow10(exp10 - PRECISION + 1)
             q == Abs(x) \div unit
             r == Abs(x) % unit
             rounded == IF 2 * r > unit \/ (2 * r = unit /\ q % 2 = 1)
                          THEN q + 1 ELSE q
             carried == rounded = Pow10(PRECISION)
             digits == ToString(StripZeros(IF carried THEN 1 ELSE rounded))
             exponent == IF carried THEN exp10 + 1 ELSE exp10
         IN  (IF x < 0 THEN "-" ELSE "")
             \o substr(digits, 0, 1)
             \o (IF Len(digits) > 1 THEN "." \o substrFrom(digits, 1) ELSE "")
             \o "e+" \o (IF exponent < 10 THEN "0" ELSE "") \o ToString(exponent)

DigitChars == <<"0", "1", "2", "3", "4", "5", "6", "7", "8", "9">>
IsDigit(c) == \E d \in 1..10 : DigitChars[d] = c
DigitValue(c) == (CHOOSE d \in 1..10 : DigitChars[d] = c) - 1

\* the run of digits of str from pos on: where it ends, the number read
\* (continuing `value`) and how many digits it has
RECURSIVE ScanDigits(_, _, _, _)
ScanDigits(str, pos, value, count) ==
    IF IsDigit(CharAt(str, pos))
      THEN ScanDigits(str, pos + 1, value * 10 + DigitValue(CharAt(str, pos)),
                      count + 1)
      ELSE [pos |-> pos, value |-> value, count |-> count]

RECURSIVE SkipSpaces(_, _)
SkipSpaces(str, pos) ==
    IF CharAt(str, pos) = " " THEN SkipSpaces(str, pos + 1) ELSE pos

\* significand * 10^exponent, for the whole numbers the model holds
Scale(significand, exponent) ==
    CASE exponent >= 0 -> significand * Pow10(exponent)
      [] exponent < 0 /\ significand % Pow10(-exponent) = 0 ->
             significand \div Pow10(-exponent)

\* wallet.cpp:306  std::stod: leading blanks, a sign, digits with an
\* optional point, an optional exponent; what follows the number is not
\* looked at.  ok = FALSE is std::invalid_argument (no number to read).
\* (Hexadecimal, "inf" and "nan" texts are not among the modelled files.)
stod(str) ==
    LET start == SkipSpaces(str, 0)
        signed == CharAt(str, start) \in {"-", "+"}
        intPart == ScanDigits(str, IF signed THEN start + 1 ELSE start, 0, 0)
        fracPart == IF CharAt(str, intPart.pos) = "."
                      THEN ScanDigits(str, intPart.pos + 1, intPart.value, 0)
                      ELSE [pos |-> intPart.pos, value |-> intPart.value, count |-> 0]
        hasE == CharAt(str, fracPart.pos) \in {"e", "E"}
        expSigned == hasE /\ CharAt(str, fracPart.pos + 1) \in {"-", "+"}
        expPart == IF hasE
                     THEN ScanDigits(str, fracPart.pos + (IF expSigned THEN 2 ELSE 1), 0, 0)
                     ELSE [pos |-> fracPart.pos, value |-> 0, count |-> 0]
        exponent == IF CharAt(str, fracPart.pos + 1) = "-"
                      THEN -expPart.value ELSE expPart.value
    IN  IF intPart.count + fracPart.count = 0
          THEN [ok |-> FALSE, value |-> 0]
          ELSE [ok |-> TRUE,
                value |-> (IF CharAt(str, start) = "-" THEN -1 ELSE 1)
                          * Scale(fracPart.value, exponent - fracPart.count)]

(***************************************************************************)
(* The wallet file: whether it exists, its first line and the lines after  *)
(* it.                                                                     *)
(***************************************************************************)
\* wallet.cpp:263
AddressLine(a) == "ADDRESS:" \o a
\* wallet.cpp:266
BalanceLine(t, x) == "BALANCE:" \o t \o ":" \o FormatDouble(x)
\* a BALANCE line whose amount text std::stod rejects (it throws)
BadBalanceLine(t) == "BALANCE:" \o t \o ":abc"
\* a line that is neither an ADDRESS nor a BALANCE record
OtherLine == "NOTE:imported"

NoFile == [exists |-> FALSE, header |-> "", body |-> <<>>]
TextFile(h, b) == [exists |-> TRUE, header |-> h, body |-> b]

\* the wallet files the constructor is run on: no file, a foreign file,
\* well-formed wallets, and a wallet with a record std::stod rejects
InitialFiles ==
    {NoFile, TextFile("NOT_A_WALLET", <<>>)}
    \cup {TextFile(WALLET_HEADER, b) : b \in {
            <<AddressLine("LMTFILE"), BalanceLine("LMT", 2)>>,
            <<AddressLine("LMTFILE"), BalanceLine("BTC", 1), OtherLine,
              BalanceLine("LMT", 2)>>,
            <<BalanceLine("BTC", 2), BadBalanceLine("LMT")>>}}

(***************************************************************************)
(* Wallet::loadWallet, wallet.cpp:283-321.  The result is the return value,*)
(* the error logged and the members as the call leaves them.               *)
(***************************************************************************)
LOG_OPEN_FAILED == "Failed to open wallet file for reading"
LOG_INVALID_FORMAT == "Invalid wallet file format"
LOG_LOAD_FAILED == "Failed to load wallet"

Loaded(ok, err, addr, balances) ==
    [ok |-> ok, err |-> err, addr |-> addr, balances |-> balances]

\* wallet.cpp:299-310
RECURSIVE LoadLines(_, _, _, _)
LoadLines(body, i, addr, balances) ==
    IF i > Len(body) THEN Loaded(TRUE, LOG_NONE, addr, balances)
    ELSE LET line == body[i] IN
         IF substr(line, 0, 8) = "ADDRESS:"
           THEN LoadLines(body, i + 1, substrFrom(line, 8), balances)
         ELSE IF substr(line, 0, 8) = "BALANCE:"
           THEN LET pos == find(line, ":", 8) IN
                IF pos # npos
                  THEN LET token == substr(line, 8, pos - 8)
                           amount == stod(substrFrom(line, pos + 1))
                       IN  IF ~amount.ok
                             \* std::stod throws, the catch returns false;
                             \* what was read stays
                             THEN Loaded(FALSE, LOG_LOAD_FAILED, addr, balances)
                             ELSE LoadLines(body, i + 1, addr,
                                            SetBalance(balances, token, amount.value))
                  ELSE LoadLines(body, i + 1, addr, balances)
         ELSE LoadLines(body, i + 1, addr, balances)

loadWallet(f, addr, balances) ==
    IF ~f.exists THEN Loaded(FALSE, LOG_OPEN_FAILED, addr, balances)
    ELSE IF f.header # WALLET_HEADER
      THEN Loaded(FALSE, LOG_INVALID_FORMAT, addr, balances)
    ELSE LoadLines(f.body, 1, addr, balances)

(***************************************************************************)
(* Wallet::saveWallet, wallet.cpp:251-278: the text a successful save      *)
(* writes (the map is walked in key order).                                *)
(***************************************************************************)
RECURSIVE BalanceLines(_, _)
BalanceLines(balances, i) ==
    IF i > Len(TokenOrder) THEN <<>>
    ELSE (IF TokenOrder[i] \in DOMAIN balances
            THEN <<BalanceLine(TokenOrder[i], balances[TokenOrder[i]])>>
            ELSE <<>>)
         \o BalanceLines(balances, i + 1)

Serialize(addr, balances) ==
    TextFile(WALLET_HEADER, <<AddressLine(addr)>> \o BalanceLines(balances, 1))

(***************************************************************************)
(* Wallet::getStatus, wallet.cpp:225-235                                   *)
(***************************************************************************)
getStatus(initialized, synchronized) ==
    IF ~initialized THEN "Not initialized"
    ELSE IF ~synchronized THEN "Not synchronized with the network"
    ELSE "Ready"

(***************************************************************************)
(* Transaction::Transaction, transaction.cpp:22-37.  The id is the random   *)
(* string generateId draws (transaction.cpp:173-192).  m_timestamp, which  *)
(* no operation of the wallet reads, is not carried.                       *)
(***************************************************************************)
NewTransaction(id, from, to, amount, token) ==
    [id |-> id, from |-> from, to |-> to, amount |-> amount, token |-> token,
     status |-> "PENDING", signature |-> ""]

Call(op, to, amount, token, ret, err, out) ==
    [op |-> op, to |-> to, amount |-> amount, token |-> token, ret |-> ret,
     err |-> err, out |-> out]

NoCall == Call("none", "", 0, "", FALSE, LOG_NONE, "")

IdleFrame == [to |-> "", amount |-> 0, token |-> "", balance |-> 0, value |-> 0,
              size |-> 0, tx |-> NewTransaction("", "", "", 0, ""), ret |-> FALSE]

(***************************************************************************)
(* Wallet::Wallet, wallet.cpp:43-56: the state after construction on each  *)
(* wallet file.                                                            *)
\* an encryptSeed / decryptSeed call: the seed and password given to
\* encryptSeed, the blob it returned, the password given to decryptSeed,
\* whether that call returned normally and what it returned
SeedCall(op, seed, password, blob, tried, ret, out) ==
    [op |-> op, seed |-> seed, password |-> password, blob |-> blob,
     tried |-> tried, ret |-> ret, out |-> out]
NoVault == SeedCall("", "", "", "", "", FALSE, "")

\* NetworkSync: m_progress as the exact quotient of two heights
RECURSIVE GCD(_, _)
GCD(a, b) == IF b = 0 THEN a ELSE GCD(b, a % b)
Frac(n, d) == [num |-> n \div GCD(n, d), den |-> d \div GCD(n, d)]
Zero == Frac(0, 1)
One == Frac(1, 1)

DEFAULT_ENDPOINT == "https://node.luminachain.network"
NullCallback == ""

\* a NetworkSync call that has returned: its argument, result and logged
\* warning; for a startSync that ran, the height it fetched, the callback in
\* place when it started, the callback invocations it made, whether a
\* stopSync succeeded while it ran and the status at its return
SyncCall(op, arg, ret, err, latest, callback, log, stopped, status) ==
    [op |-> op, arg |-> arg, ret |-> ret, err |-> err, latest |-> latest,
     callback |-> callback, log |-> log, stopped |-> stopped, status |-> status]
NoSyncCall == SyncCall("", "", FALSE, "", 0, NullCallback, <<>>, FALSE, "NOT_SYNCED")

\* no Transaction constructed yet, and a call on a Transaction
NoTransaction == NewTransaction("", "", "", 0, "")
TxCall(op, arg, ret) == [op |-> op, arg |-> arg, ret |-> ret]
NoTxCall == TxCall("", "", FALSE)

(***************************************************************************)
\* Wallet::Wallet, wallet.cpp:43-56, run on one of the given wallet files
InitOn(files) ==
    \E f \in files :
        LET loaded == loadWallet(f, "", EmptyBalances) IN
        /\ file = f
        /\ m_mainAddress = loaded.addr
        /\ m_balances = loaded.balances
        /\ m_transactions = <<>>
        /\ m_isInitialized = loaded.ok
        /\ m_isSynchronized = FALSE
        /\ lastCall = NoCall
        /\ initSucceeded = loaded.ok
        /\ openingBalances = loaded.balances
        /\ pc = [th \in Threads |-> "idle"]
        /\ frame = [th \in Threads |-> IdleFrame]
        /\ vault = NoVault
        /\ tx = NoTransaction
        /\ txCall = NoTxCall
        /\ txSigned = FALSE
        /\ m_networkEndpoint = DEFAULT_ENDPOINT
        /\ m_status = "NOT_SYNCED"
        /\ m_progress = Zero
        /\ m_latestBlockHeight = 0
        /\ m_currentBlockHeight = 0
        /\ m_isSyncing = FALSE
        /\ m_callback = NullCallback
        /\ stack = <<>>
        /\ syncCall = NoSyncCall

Init == InitOn(InitialFiles)

seedIdle == UNCHANGED vault
txIdle == UNCHANGED <<tx, txCall, txSigned>>
syncIdle == UNCHANGED <<engineVars, stack, syncCall>>

seqOnly == UNCHANGED <<pc, frame>> /\ seedIdle /\ txIdle /\ syncIdle

(***************************************************************************)
(* Wallet::create, wallet.cpp:71-92, with the saveWallet it ends in        *)
(* (wallet.cpp:251-278): the ofstream either opens, and the file is        *)
(* rewritten, or does not, and saveWallet returns false.                   *)
(***************************************************************************)
\* mutant: the guard of wallet.cpp:72 / :98 dropped
AlreadyInitialized_Never(initialized) == FALSE

\* wallet.cpp:72, wallet.cpp:98
AlreadyInitialized(initialized) == initialized

Create ==
    /\ seqOnly
    /\ IF AlreadyInitialized(m_isInitialized)
         THEN /\ lastCall' = Call("create", "", 0, "", FALSE, LOG_ALREADY_INITIALIZED, "")
              /\ UNCHANGED <<file, walletVars, initSucceeded, openingBalances>>
         ELSE \E opened \in BOOLEAN :
              /\ m_mainAddress' = CREATED_ADDRESS
              /\ m_balances' = SetBalance(m_balances, DEFAULT_TOKEN, 0)
              /\ m_isInitialized' = TRUE
              /\ m_isSynchronized' = FALSE
              /\ file' = IF opened THEN Serialize(m_mainAddress', m_balances') ELSE file
              /\ lastCall' = Call("create", "", 0, "", opened,
                                  IF opened THEN LOG_NONE ELSE LOG_SAVE_FAILED, "")
              /\ initSucceeded' = (initSucceeded \/ opened)
              /\ openingBalances' = m_balances'
              /\ UNCHANGED m_transactions

(***************************************************************************)
(* Wallet::recoverFromSeed, wallet.cpp:97-131                              *)
(***************************************************************************)
\* mutant: the test of wallet.cpp:112 only refuses phrases that are too long
WordCountValid_AtMost(words) == Len(words) <= SEED_WORD_COUNT

\* wallet.cpp:112
WordCountValid(words) == Len(words) = SEED_WORD_COUNT

RecoverFromSeed(words) ==
    /\ seqOnly
    /\ IF AlreadyInitialized(m_isInitialized)
         THEN /\ lastCall' = Call("recoverFromSeed", "", 0, "", FALSE,
                                  LOG_ALREADY_INITIALIZED, "")
              /\ UNCHANGED <<file, walletVars, initSucceeded, openingBalances>>
         ELSE IF ~WordCountValid(words)
         THEN /\ lastCall' = Call("recoverFromSeed", "", 0, "", FALSE,
                                  LOG_INVALID_SEED, "")
              /\ UNCHANGED <<file, walletVars, initSucceeded, openingBalances>>
         ELSE \E opened \in BOOLEAN :
              /\ m_mainAddress' = CREATED_ADDRESS
              /\ m_balances' = SetBalance(m_balances, DEFAULT_TOKEN, 0)
              /\ m_isInitialized' = TRUE
              /\ m_isSynchronized' = FALSE
              /\ file' = IF opened THEN Serialize(m_mainAddress', m_balances') ELSE file
              /\ lastCall' = Call("recoverFromSeed", "", 0, "", opened,
                                  IF opened THEN LOG_NONE ELSE LOG_SAVE_FAILED, "")
              /\ initSucceeded' = (initSucceeded \/ opened)
              /\ openingBalances' = m_balances'
              /\ UNCHANGED m_transactions

(***************************************************************************)
(* Wallet::transfer, wallet.cpp:154-186                                    *)
(***************************************************************************)
\* mutant: the comparison of wallet.cpp:166 turned round
InsufficientBalance_Inverted(balance, amount) == amount < balance

\* mutant: the comparison of wallet.cpp:166 off by one unit
InsufficientBalance_OffByOne(balance, amount) == balance + 1 < amount

\* wallet.cpp:166
InsufficientBalance(balance, amount) == balance < amount

\* mutant: wallet.cpp:179 written with = for -=
Debit_Assigns(balances, tokenSymbol, amount) ==
    SetBalance(balances, tokenSymbol, amount)

\* mutant: wallet.cpp:179 written with += for -=
Debit_Credits(balances, tokenSymbol, amount) ==
    SetBalance(balances, tokenSymbol, getBalance(balances, tokenSymbol) + amount)

\* wallet.cpp:179  m_balances[tokenSymbol] -= amount
Debit(balances, tokenSymbol, amount) ==
    SetBalance(balances, tokenSymbol, getBalance(balances, tokenSymbol) - amount)

\* mutant: the new transaction put in front of the history
PushBack_Front(transactions, transaction) == <<transaction>> \o transactions

\* wallet.cpp:180  m_transactions.push_back(transaction)
PushBack(transactions, transaction) == Append(transactions, transaction)

TransferBody(op, toAddress, amount, tokenSymbol) ==
    IF ~m_isInitialized
      THEN /\ lastCall' = Call(op, toAddress, amount, tokenSymbol, FALSE,
                               LOG_NOT_INITIALIZED, "")
           /\ UNCHANGED <<file, walletVars, initSucceeded, openingBalances>>
    ELSE IF InsufficientBalance(getBalance(m_balances, tokenSymbol), amount)
      THEN /\ lastCall' = Call(op, toAddress, amount, tokenSymbol, FALSE,
                               LOG_INSUFFICIENT_BALANCE, "")
           /\ UNCHANGED <<file, walletVars, initSucceeded, openingBalances>>
    ELSE \E id \in TxIds :
           /\ Len(m_transactions) < MaxTx
           /\ getBalance(m_balances, tokenSymbol) - amount <= MaxBalance
           /\ m_balances' = Debit(m_balances, tokenSymbol, amount)
           /\ m_transactions' = PushBack(m_transactions,
                  NewTransaction(id, m_mainAddress, toAddress, amount, tokenSymbol))
           /\ lastCall' = Call(op, toAddress, amount, tokenSymbol, TRUE, LOG_NONE, "")
           /\ UNCHANGED <<file, m_mainAddress, m_isInitialized, m_isSynchronized,
                          initSucceeded, openingBalances>>

Transfer(toAddress, amount, tokenSymbol) ==
    /\ seqOnly
    /\ TransferBody("transfer", toAddress, amount, tokenSymbol)

(***************************************************************************)
(* Wallet::donate, wallet.cpp:240-246                                      *)
(***************************************************************************)
\* mutant: the transfer of wallet.cpp:245 made to the caller's recipient
\* list instead of the development address
Donate_ToRecipient(amount) ==
    /\ seqOnly
    /\ TransferBody("donate", "LMTB", amount, DEFAULT_TOKEN)

Donate(amount) ==
    /\ seqOnly
    /\ TransferBody("donate", DEV_TEAM_ADDRESS, amount, DEFAULT_TOKEN)

(***************************************************************************)
(* Wallet::getSeedPhrase, wallet.cpp:191-201                               *)
(***************************************************************************)
\* the string the method returns; the password is not looked at
getSeedPhrase(initialized, password) ==
    IF ~initialized THEN "" ELSE FIXED_SEED_PHRASE

GetSeedPhrase(password) ==
    /\ seqOnly
    /\ lastCall' = IF ~m_isInitialized
                     THEN Call("getSeedPhrase", password, 0, "", FALSE,
                               LOG_NOT_INITIALIZED,
                               getSeedPhrase(m_isInitialized, password))
                     ELSE Call("getSeedPhrase", password, 0, "", TRUE, LOG_NONE,
                               getSeedPhrase(m_isInitialized, password))
    /\ UNCHANGED <<file, walletVars, initSucceeded, openingBalances>>

(***************************************************************************)
(* Wallet::synchronize, wallet.cpp:206-220                                 *)
(***************************************************************************)
Synchronize ==
    /\ seqOnly
    /\ IF ~m_isInitialized
         THEN /\ lastCall' = Call("synchronize", "", 0, "", FALSE, LOG_NOT_INITIALIZED, "")
              /\ UNCHANGED m_isSynchronized
         ELSE /\ lastCall' = Call("synchronize", "", 0, "", TRUE, LOG_NONE, "")
              /\ m_isSynchronized' = TRUE
    /\ UNCHANGED <<file, m_mainAddress, m_balances, m_transactions, m_isInitialized,
                   initSucceeded, openingBalances>>

Passwords == {"pw"}

Next ==
    \/ Create
    \/ \E words \in SeedPhrases : RecoverFromSeed(words)
    \/ \E to \in Recipients, amount \in Amounts, token \in Tokens :
           Transfer(to, amount, token)
    \/ \E amount \in Amounts : Donate(amount)
    \/ \E password \in Passwords : GetSeedPhrase(password)
    \/ Synchronize

Spec == Init /\ [][Next]_vars

(***************************************************************************)
(* The wallet under create and donate calls, with transfers of the token   *)
(* donate does not touch (one unit paid out or, by a negative amount,      *)
(* paid in)                                                                *)
(***************************************************************************)
NextDonate ==
    \/ Create
    \/ \E to \in Recipients, amount \in {-1, 1} : Transfer(to, amount, "BTC")
    \/ \E amount \in Amounts : Donate(amount)

SpecDonate == Init /\ [][NextDonate]_vars

(***************************************************************************)
(* Wallet::getBalance as a call on the wallet, wallet.cpp:143-149          *)
(***************************************************************************)
\* token symbols asked for: the wallet's own and one no wallet file names
QueryTokens == Tokens \cup {"ETH"}

\* mutant: the lookup written m_balances[tokenSymbol], which inserts a
\* missing key with the value 0
LookedUp_Inserting(balances, tokenSymbol) ==
    SetBalance(balances, tokenSymbol, getBalance(balances, tokenSymbol))

\* wallet.cpp:144  m_balances.find(tokenSymbol) in a const method: the map
\* after the lookup
LookedUp(balances, tokenSymbol) == balances

\* the call returns a double (recorded as the call's amount) on every path
\* and logs nothing
GetBalance(tokenSymbol) ==
    /\ seqOnly
    /\ m_balances' = LookedUp(m_balances, tokenSymbol)
    /\ lastCall' = Call("getBalance", "", getBalance(m_balances, tokenSymbol),
                        tokenSymbol, TRUE, LOG_NONE, "")
    /\ UNCHANGED <<file, m_mainAddress, m_transactions, m_isInitialized,
                   m_isSynchronized, initSucceeded, openingBalances>>

NextQuery ==
    \/ Create
    \/ \E to \in Recipients, amount \in Amounts, token \in Tokens :
           Transfer(to, amount, token)
    \/ \E token \in QueryTokens : GetBalance(token)

SpecQuery == Init /\ [][NextQuery]_vars

(***************************************************************************)
(* The wallet across restarts: the destructor saves, a wallet constructed  *)
(* later on the same path loads what is in the file.                       *)
(***************************************************************************)
\* wallet files found on disk: none, foreign files, a header that differs
\* by a trailing blank, wallets with small and with seven-digit amounts,
\* a wallet with lines that are no record, a wallet with an amount
\* std::stod rejects
StoredFiles ==
    {NoFile,
     TextFile("NOT_A_WALLET", <<"ADDRESS:LMTFILE">>),
     TextFile("LUMINA_WALLET_DATA ", <<"ADDRESS:LMTFILE", "BALANCE:LMT:2">>)}
    \cup {TextFile(WALLET_HEADER, b) : b \in {
            <<"ADDRESS:LMTFILE", "BALANCE:LMT:2">>,
            <<"ADDRESS:LMTFILE", "BALANCE:LMT:1000000">>,
            <<"ADDRESS:LMTFILE", "BALANCE:BTC:1", "BALANCE:LMT:1234567">>,
            <<"ADDRESS:LMTFILE", OtherLine, "BALANCE:BTC", "BALANCE:LMT:2">>,
            <<"ADDRESS:LMTFILE", "BALANCE:BTC:2", BadBalanceLine("LMT")>>}}

\* the Wallet object exists: it was not destroyed since it was constructed
Alive == lastCall.op # "~Wallet"

\* Wallet::~Wallet, wallet.cpp:61-66, with the saveWallet it calls
\* (wallet.cpp:251-278).  The members keep the values the object had.
Destroy ==
    /\ Alive
    /\ seqOnly
    /\ IF m_isInitialized
         THEN \E opened \in BOOLEAN :
              /\ file' = IF opened THEN Serialize(m_mainAddress, m_balances) ELSE file
              /\ lastCall' = Call("~Wallet", "", 0, "", opened,
                                  IF opened THEN LOG_NONE ELSE LOG_SAVE_FAILED, "")
         ELSE /\ lastCall' = Call("~Wallet", "", 0, "", FALSE, LOG_NONE, "")
              /\ UNCHANGED file
    /\ UNCHANGED <<walletVars, initSucceeded, openingBalances>>

\* Wallet::Wallet, wallet.cpp:43-56, for a new object on the same path
Construct ==
    /\ ~Alive
    /\ seqOnly
    /\ LET loaded == loadWallet(file, "", EmptyBalances) IN
       /\ m_mainAddress' = loaded.addr
       /\ m_balances' = loaded.balances
       /\ m_transactions' = <<>>
       /\ m_isInitialized' = loaded.ok
       /\ m_isSynchronized' = FALSE
       /\ lastCall' = Call("Wallet", "", 0, "", loaded.ok, loaded.err, "")
       /\ initSucceeded' = loaded.ok
       /\ openingBalances' = loaded.balances
    /\ UNCHANGED file

NextFile ==
    \/ Alive /\ Create
    \/ Alive /\ \E to \in Recipients, amount \in Amounts, token \in Tokens :
                    Transfer(to, amount, token)
    \/ Destroy
    \/ Construct

InitFile == InitOn(StoredFiles)

SpecFile == InitFile /\ [][NextFile]_vars

(***************************************************************************)
(* Seed storage: Wallet::encryptSeed and Wallet::decryptSeed               *)
(* (wallet.cpp:353-364) next to create, recoverFromSeed and getSeedPhrase.  *)
(* The constructor's password parameter (wallet.cpp:43) is not stored.     *)
(***************************************************************************)
\* the password the wallet was constructed with, and the ones callers try
WalletPassword == "pw"
SeedPasswords == {"pw", "other", ""}

\* the text of a phrase: its words joined by single blanks (wallet.cpp:339-345)
RECURSIVE Join(_)
Join(words) ==
    IF words = <<>> THEN ""
    ELSE IF Len(words) = 1 THEN words[1]
    ELSE words[1] \o " " \o Join(Tail(words))

SeedTexts == {Join(w) : w \in SeedPhrases} \cup {FIXED_SEED_PHRASE}

\* wallet.cpp:353-356
encryptSeed(seed, password) == seed

\* wallet.cpp:361-364
decryptSeed(encryptedSeed, password) == encryptedSeed

walletIdle == UNCHANGED <<file, walletVars, lastCall, initSucceeded,
                            openingBalances, pc, frame>>

EncryptSeed(seed, password) ==
    /\ vault' = SeedCall("encryptSeed", seed, password,
                         encryptSeed(seed, password), "", TRUE, "")
    /\ walletIdle /\ txIdle /\ syncIdle

DecryptSeed(password) ==
    /\ vault.op # ""
    /\ vault' = [vault EXCEPT !.op = "decryptSeed", !.tried = password, !.ret = TRUE,
                              !.out = decryptSeed(vault.blob, password)]
    /\ walletIdle /\ txIdle /\ syncIdle

NextSeed ==
    \/ Create
    \/ \E words \in SeedPhrases : RecoverFromSeed(words)
    \/ \E password \in SeedPasswords : GetSeedPhrase(password)
    \/ \E seed \in SeedTexts, password \in SeedPasswords : EncryptSeed(seed, password)
    \/ \E password \in SeedPasswords : DecryptSeed(password)

SpecSeed == Init /\ [][NextSeed]_vars

(***************************************************************************)
(* Transaction (transaction.cpp): one object, constructed by its caller    *)
(* and then driven through setStatus, sign and verifySignature.            *)
(***************************************************************************)
TransactionStatus == {"PENDING", "CONFIRMED", "FAILED"}
SIGNATURE_PREFIX == "SIGNATURE_"
PrivateKeys == {"key", ""}

\* mutant: the signature of transaction.cpp:117 written without its prefix
Signature_NoPrefix(id) == id

\* transaction.cpp:117
Signature(id) == SIGNATURE_PREFIX \o id

\* std::string::substr(0, n): the first n characters, or all of a shorter string
Substr0(str, n) == IF Len(str) <= n THEN str ELSE SubSeq(str, 1, n)

\* transaction.cpp:127-132
verifySignature(signature) ==
    signature # "" /\ Substr0(signature, Len(SIGNATURE_PREFIX)) = SIGNATURE_PREFIX

txOnly == walletIdle /\ seedIdle /\ syncIdle

\* Transaction::Transaction, transaction.cpp:22-37
TxConstruct(from, to, amount, token) ==
    /\ tx = NoTransaction
    /\ \E id \in TxIds : tx' = NewTransaction(id, from, to, amount, token)
    /\ txCall' = TxCall("Transaction", "", TRUE)
    /\ txSigned' = FALSE
    /\ txOnly

\* Transaction::setStatus, transaction.cpp:91-108
SetStatus(status) ==
    /\ tx # NoTransaction
    /\ tx' = [tx EXCEPT !.status = status]
    /\ txCall' = TxCall("setStatus", status, TRUE)
    /\ UNCHANGED txSigned
    /\ txOnly

\* Transaction::sign, transaction.cpp:113-122
Sign(privateKey) ==
    /\ tx # NoTransaction
    /\ tx' = [tx EXCEPT !.signature = Signature(tx.id)]
    /\ txCall' = TxCall("sign", privateKey, TRUE)
    /\ txSigned' = TRUE
    /\ txOnly

\* Transaction::verifySignature, transaction.cpp:127-132
VerifySignature ==
    /\ tx # NoTransaction
    /\ txCall' = TxCall("verifySignature", "", verifySignature(tx.signature))
    /\ UNCHANGED <<tx, txSigned>>
    /\ txOnly

NextTx ==
    \/ \E to \in Recipients, amount \in Amounts, token \in Tokens :
           TxConstruct(CREATED_ADDRESS, to, amount, token)
    \/ \E status \in TransactionStatus : SetStatus(status)
    \/ \E privateKey \in PrivateKeys : Sign(privateKey)
    \/ VerifySignature

SpecTx == Init /\ [][NextTx]_vars

(***************************************************************************)
(* NetworkSync (src/unnamed/part_005).  startSync runs the whole           *)
(* synchronization on the caller's thread and calls m_callback from inside *)
(* it, so the only code that runs while a startSync is in progress is the  *)
(* callback, which may call the engine's public methods again.  `stack`    *)
(* holds the startSync activations; a public method is called either with  *)
(* an empty stack or from the callback of the innermost activation.        *)
(* fetchLatestBlockHeight is a stub that stores 12345 (part_005:180); the  *)
(* model lets it store any height of FetchedHeights, and m_progress is the *)
(* exact quotient instead of its float rounding.                           *)
(***************************************************************************)
MaxDepth == 2     \* startSync activations nested inside callbacks

batchSize == 100
FetchedHeights == {0, 100, 250}
Callbacks == {"cbA", "cbB"}
Endpoints == {DEFAULT_ENDPOINT, "https://other.node"}

LOG_ALREADY_SYNCING == "Synchronization is already in progress"
LOG_NOT_SYNCING == "Synchronization is not in progress"
LOG_CONNECT_FAILED == "Failed to connect to the network"
LOG_FETCH_FAILED == "Failed to fetch latest block height"
MSG_COMPLETED == "Synchronization completed"

\* part_005:203
ProcessedMessage(toHeight) == "Processed blocks up to " \o ToString(toHeight)

\* one invocation m_callback(progress, message), with the height
\* getCurrentBlockHeight answers during it
Notice(progress, message, height) ==
    [progress |-> progress, message |-> message, height |-> height]

Frame(label, height, latest, callback, log, stopped) ==
    [pc |-> label, height |-> height, latest |-> latest, callback |-> callback,
     log |-> log, stopped |-> stopped]

Top == stack[Len(stack)]
SetTop(f) == [stack EXCEPT ![Len(stack)] = f]
InCallback == stack # <<>> /\ Top.pc \in {"callback", "finalCallback"}
\* the engine's public methods can be called now
CallerActive == stack = <<>> \/ InCallback

syncOnly == walletIdle /\ seedIdle /\ txIdle

\* part_005:164-171
connectToNetwork == TRUE
\* part_005:176-185 (return value)
fetchLatestBlockHeight == TRUE

\* mutant: part_005:79 storing the wrong status
StartedStatus_NotSynced == "NOT_SYNCED"

\* part_005:79
StartedStatus == "SYNCING"

\* mutant: the guard of part_005:56 dropped
AlreadySyncing_Never(isSyncing) == FALSE

\* part_005:56
AlreadySyncing(isSyncing) == isSyncing

\* startSync(callback) up to the call of simulateSync and its first
\* statements, part_005:55-85 and 233-241
StartSync(callback) ==
    /\ CallerActive
    /\ syncOnly
    /\ IF AlreadySyncing(m_isSyncing)
         THEN /\ syncCall' = SyncCall("startSync", callback, FALSE, LOG_ALREADY_SYNCING,
                                      0, NullCallback, <<>>, FALSE, m_status)
              /\ UNCHANGED <<engineVars, stack>>
         ELSE IF ~connectToNetwork
         THEN /\ m_callback' = IF callback # NullCallback THEN callback ELSE m_callback
              /\ syncCall' = SyncCall("startSync", callback, FALSE, LOG_CONNECT_FAILED,
                                      0, NullCallback, <<>>, FALSE, m_status)
              /\ UNCHANGED <<m_networkEndpoint, m_status, m_progress,
                             m_latestBlockHeight, m_currentBlockHeight, m_isSyncing,
                             stack>>
         ELSE \E latest \in FetchedHeights :
              IF ~fetchLatestBlockHeight
              THEN /\ m_callback' = IF callback # NullCallback THEN callback
                                                                 ELSE m_callback
                   /\ m_latestBlockHeight' = latest
                   /\ syncCall' = SyncCall("startSync", callback, FALSE, LOG_FETCH_FAILED,
                                           0, NullCallback, <<>>, FALSE, m_status)
                   /\ UNCHANGED <<m_networkEndpoint, m_status, m_progress,
                                  m_currentBlockHeight, m_isSyncing, stack>>
              ELSE /\ Len(stack) < MaxDepth
                   /\ m_callback' = IF callback # NullCallback THEN callback
                                                                 ELSE m_callback
                   /\ m_latestBlockHeight' = latest
                   /\ m_status' = StartedStatus
                   /\ m_isSyncing' = TRUE
                   /\ m_currentBlockHeight' = 0
                   /\ stack' = Append(stack, Frame("loop", 0, latest, m_callback',
                                                   <<>>, FALSE))
                   /\ UNCHANGED <<m_networkEndpoint, m_progress, syncCall>>

Min(a, b) == IF a <= b THEN a ELSE b

\* mutant: the std::min of part_005:244 dropped
BatchEnd_Unclamped(height, latest) == height + batchSize

\* part_005:244
BatchEnd(height, latest) == Min(height + batchSize, latest)

\* mutant: the quotient of part_005:198 turned round
BatchProgress_Inverted(current, latest) == Frac(latest, current)

\* part_005:198  static_cast<float>(m_currentBlockHeight) / m_latestBlockHeight
BatchProgress(current, latest) == Frac(current, latest)

\* one pass of the loop of simulateSync up to the callback invocation:
\* part_005:243-247 with processBlocks, part_005:190-204
ProcessBatch ==
    /\ stack # <<>>
    /\ Top.pc = "loop"
    /\ syncOnly
    /\ UNCHANGED <<m_networkEndpoint, m_status, m_latestBlockHeight, m_isSyncing,
                   m_callback, syncCall>>
    /\ IF Top.height < m_latestBlockHeight
         THEN LET toHeight == BatchEnd(Top.height, m_latestBlockHeight)
                  progress == IF m_latestBlockHeight > 0
                                THEN BatchProgress(toHeight, m_latestBlockHeight)
                                ELSE m_progress
              IN /\ m_currentBlockHeight' = toHeight
                 /\ m_progress' = progress
                 /\ stack' = IF m_callback # NullCallback
                      THEN SetTop([Top EXCEPT
                             !.pc = "callback",
                             !.log = Append(@, Notice(progress,
                                                      ProcessedMessage(toHeight),
                                                      toHeight))])
                      ELSE SetTop([Top EXCEPT !.pc = "sleep"])
         ELSE /\ stack' = SetTop([Top EXCEPT !.pc = "final"])
              /\ UNCHANGED <<m_currentBlockHeight, m_progress>>

\* the callback returns: part_005:204-207 or part_005:218-219
CallbackReturn ==
    /\ InCallback
    /\ syncOnly
    /\ stack' = SetTop([Top EXCEPT !.pc = IF Top.pc = "callback" THEN "sleep"
                                                                  ELSE "complete"])
    /\ UNCHANGED <<engineVars, syncCall>>

\* mutant: the test of part_005:253 dropped
Cancelled_Never(isSyncing) == FALSE

\* part_005:253
Cancelled(isSyncing) == ~isSyncing

\* part_005:250-256 and the loop increment of part_005:243
AfterBatch ==
    /\ stack # <<>>
    /\ Top.pc = "sleep"
    /\ syncOnly
    /\ stack' = IF Cancelled(m_isSyncing)
                  THEN SetTop([Top EXCEPT !.pc = "final"])
                  ELSE SetTop([Top EXCEPT !.pc = "loop", !.height = @ + batchSize])
    /\ UNCHANGED <<engineVars, syncCall>>

\* mutant: the comparison of part_005:259 made strict
CaughtUp_Strict(current, latest) == current > latest

\* part_005:259
CaughtUp(current, latest) == current >= latest

\* part_005:259-260 with updateProgress up to the callback invocation,
\* part_005:213-218
Finish ==
    /\ stack # <<>>
    /\ Top.pc = "final"
    /\ syncOnly
    /\ UNCHANGED <<m_networkEndpoint, m_status, m_latestBlockHeight,
                   m_currentBlockHeight, m_isSyncing, m_callback, syncCall>>
    /\ IF m_isSyncing /\ CaughtUp(m_currentBlockHeight, m_latestBlockHeight)
         THEN /\ m_progress' = One
              /\ stack' = IF m_callback # NullCallback
                   THEN SetTop([Top EXCEPT
                          !.pc = "finalCallback",
                          !.log = Append(@, Notice(One, MSG_COMPLETED,
                                                   m_currentBlockHeight))])
                   ELSE SetTop([Top EXCEPT !.pc = "complete"])
         ELSE /\ stack' = SetTop([Top EXCEPT !.pc = "return"])
              /\ UNCHANGED m_progress

\* the rest of updateProgress(1.0f, ...), part_005:222-227
Complete ==
    /\ stack # <<>>
    /\ Top.pc = "complete"
    /\ syncOnly
    /\ m_status' = "SYNCED"
    /\ m_isSyncing' = FALSE
    /\ stack' = SetTop([Top EXCEPT !.pc = "return"])
    /\ UNCHANGED <<m_networkEndpoint, m_progress, m_latestBlockHeight,
                   m_currentBlockHeight, m_callback, syncCall>>

\* simulateSync returns and startSync returns true, part_005:85-87
StartSyncReturn ==
    /\ stack # <<>>
    /\ Top.pc = "return"
    /\ syncOnly
    /\ stack' = SubSeq(stack, 1, Len(stack) - 1)
    /\ syncCall' = SyncCall("startSync", "", TRUE, LOG_NONE, Top.latest, Top.callback,
                            Top.log, Top.stopped, m_status)
    /\ UNCHANGED engineVars

\* mutant: the guard of part_005:94 dropped
NotInProgress_Never(isSyncing) == FALSE

\* part_005:94
NotInProgress(isSyncing) == ~isSyncing

\* mutant: stopSync leaving the status as it is
StoppedStatus_Unchanged(status) == status

\* part_005:102-104
StoppedStatus(status) == IF status # "SYNCED" THEN "NOT_SYNCED" ELSE status

\* NetworkSync::stopSync, part_005:93-111
StopSync ==
    /\ CallerActive
    /\ syncOnly
    /\ UNCHANGED <<m_networkEndpoint, m_progress, m_latestBlockHeight,
                   m_currentBlockHeight, m_callback>>
    /\ IF NotInProgress(m_isSyncing)
         THEN /\ syncCall' = SyncCall("stopSync", "", FALSE, LOG_NOT_SYNCING,
                                      0, NullCallback, <<>>, FALSE, m_status)
              /\ UNCHANGED <<m_status, m_isSyncing, stack>>
         ELSE /\ m_status' = StoppedStatus(m_status)
              /\ m_isSyncing' = FALSE
              /\ stack' = [i \in DOMAIN stack |-> [stack[i] EXCEPT !.stopped = TRUE]]
              /\ syncCall' = SyncCall("stopSync", "", TRUE, LOG_NONE,
                                      0, NullCallback, <<>>, FALSE, m_status')

\* NetworkSync::setNetworkEndpoint, part_005:144-152
SetNetworkEndpoint(endpoint) ==
    /\ CallerActive
    /\ syncOnly
    /\ m_networkEndpoint' = endpoint
    /\ syncCall' = SyncCall("setNetworkEndpoint", endpoint, TRUE, LOG_NONE,
                            0, NullCallback, <<>>, FALSE, m_status)
    /\ UNCHANGED <<m_status, m_progress, m_latestBlockHeight, m_currentBlockHeight,
                   m_isSyncing, m_callback, stack>>

NextSync ==
    \/ \E callback \in Callbacks \cup {NullCallback} : StartSync(callback)
    \/ ProcessBatch
    \/ CallbackReturn
    \/ AfterBatch
    \/ Finish
    \/ Complete
    \/ StartSyncReturn
    \/ StopSync
    \/ \E endpoint \in Endpoints : SetNetworkEndpoint(endpoint)

\* the engine stands alone: the wallet beside it is one built without a file
InitSync == Init /\ file = NoFile

SpecSync == InitSync /\ [][NextSync]_vars

(***************************************************************************)
(* A wallet and a NetworkSync engine in one single-threaded program: the   *)
(* wallet's methods are called between the engine's blocking startSync     *)
(* calls (started without a callback).  Wallet::synchronize,               *)
(* wallet.cpp:206-220, makes no call on an engine.                         *)
(***************************************************************************)
EngineIdle == stack = <<>>

NextWalletSync ==
    \/ EngineIdle /\ Create
    \/ EngineIdle /\ \E to \in Recipients, amount \in Amounts, token \in Tokens :
                         Transfer(to, amount, token)
    \/ EngineIdle /\ Synchronize
    \/ StartSync(NullCallback)
    \/ ProcessBatch
    \/ AfterBatch
    \/ Finish
    \/ Complete
    \/ StartSyncReturn

SpecWalletSync == InitSync /\ [][NextWalletSync]_vars

(***************************************************************************)
(* Two threads inside Wallet::transfer on one instance.  Wallet has no     *)
(* mutex (wallet.h:114-134), so the statements of wallet.cpp:155-185 of    *)
(* two calls interleave; `-=` on the map entry and push_back are a load    *)
(* followed by a store.                                                    *)
(***************************************************************************)
ThreadAmounts == {1, 2}

concOnly == /\ UNCHANGED <<file, m_mainAddress, m_isInitialized, m_isSynchronized,
                          lastCall, initSucceeded, openingBalances>>
            /\ seedIdle /\ txIdle /\ syncIdle

Goto(th, label) == pc' = [pc EXCEPT ![th] = label]

\* entry of transfer(toAddress, amount, tokenSymbol)
T_Call(th, toAddress, amount, tokenSymbol) ==
    /\ pc[th] = "idle"
    /\ frame' = [frame EXCEPT ![th].to = toAddress, ![th].amount = amount,
                              ![th].token = tokenSymbol]
    /\ Goto(th, "L155")
    /\ UNCHANGED <<m_balances, m_transactions>>
    /\ concOnly

\* wallet.cpp:155-158
T_CheckInitialized(th) ==
    /\ pc[th] = "L155"
    /\ IF ~m_isInitialized
         THEN /\ Goto(th, "done")
              /\ frame' = [frame EXCEPT ![th].ret = FALSE]
         ELSE /\ Goto(th, "L165")
              /\ UNCHANGED frame
    /\ UNCHANGED <<m_balances, m_transactions>>
    /\ concOnly

\* wallet.cpp:165-169
T_CheckBalance(th) ==
    /\ pc[th] = "L165"
    /\ LET balance == getBalance(m_balances, frame[th].token) IN
       IF InsufficientBalance(balance, frame[th].amount)
         THEN /\ Goto(th, "done")
              /\ frame' = [frame EXCEPT ![th].balance = balance, ![th].ret = FALSE]
         ELSE /\ Goto(th, "L172")
              /\ frame' = [frame EXCEPT ![th].balance = balance]
    /\ UNCHANGED <<m_balances, m_transactions>>
    /\ concOnly

\* wallet.cpp:172
T_Construct(th) ==
    /\ pc[th] = "L172"
    /\ \E id \in TxIds :
         frame' = [frame EXCEPT ![th].tx =
                      NewTransaction(id, m_mainAddress, frame[th].to,
                                     frame[th].amount, frame[th].token)]
    /\ Goto(th, "L179")
    /\ UNCHANGED <<m_balances, m_transactions>>
    /\ concOnly

\* wallet.cpp:179, the load of m_balances[tokenSymbol] (operator[] inserts a
\* missing key) and the subtraction
T_DebitLoad(th) ==
    /\ pc[th] = "L179"
    /\ m_balances' = IF frame[th].token \in DOMAIN m_balances THEN m_balances
                     ELSE SetBalance(m_balances, frame[th].token, 0)
    /\ frame' = [frame EXCEPT ![th].value =
                     getBalance(m_balances, frame[th].token) - frame[th].amount]
    /\ Goto(th, "L179store")
    /\ UNCHANGED m_transactions
    /\ concOnly

\* wallet.cpp:179, the store
T_DebitStore(th) ==
    /\ pc[th] = "L179store"
    /\ m_balances' = SetBalance(m_balances, frame[th].token, frame[th].value)
    /\ Goto(th, "L180")
    /\ UNCHANGED <<frame, m_transactions>>
    /\ concOnly

\* wallet.cpp:180, push_back reads the end of the vector
T_PushLoad(th) ==
    /\ pc[th] = "L180"
    /\ frame' = [frame EXCEPT ![th].size = Len(m_transactions)]
    /\ Goto(th, "L180store")
    /\ UNCHANGED <<m_balances, m_transactions>>
    /\ concOnly

\* wallet.cpp:180, push_back writes the slot it read and the new end
T_PushStore(th) ==
    /\ pc[th] = "L180store"
    /\ m_transactions' = SubSeq(m_transactions, 1, frame[th].size) \o <<frame[th].tx>>
    /\ Goto(th, "L185")
    /\ UNCHANGED <<frame, m_balances>>
    /\ concOnly

\* wallet.cpp:185
T_Return(th) ==
    /\ pc[th] = "L185"
    /\ frame' = [frame EXCEPT ![th].ret = TRUE]
    /\ Goto(th, "done")
    /\ UNCHANGED <<m_balances, m_transactions>>
    /\ concOnly

NextConc ==
    \E th \in Threads :
        \/ \E to \in Recipients, amount \in ThreadAmounts, token \in Tokens :
               T_Call(th, to, amount, token)
        \/ T_CheckInitialized(th)
        \/ T_CheckBalance(th)
        \/ T_Construct(th)
        \/ T_DebitLoad(th)
        \/ T_DebitStore(th)
        \/ T_PushLoad(th)
        \/ T_PushStore(th)
        \/ T_Return(th)

SpecConc == Init /\ [][NextConc]_vars

(***************************************************************************)
(* Properties                                                              *)
(***************************************************************************)
IsPrefix(a, b) == Len(a) <= Len(b) /\ SubSeq(b, 1, Len(a)) = a

Last(seq) == seq[Len(seq)]

RECURSIVE SumAmounts(_, _)
SumAmounts(txs, tokenSymbol) ==
    IF txs = <<>> THEN 0
    ELSE (IF Last(txs).token = tokenSymbol THEN Last(txs).amount ELSE 0)
         + SumAmounts(SubSeq(txs, 1, Len(txs) - 1), tokenSymbol)

\* the step is a call of transfer on an initialized wallet
TransferStep == lastCall'.op = "transfer" /\ m_isInitialized

\* C1: on an initialized wallet, transfer(to, a, t) with 0 < a <= balance(t)
\* returns true, lowers balance(t) by exactly a, leaves every other token's
\* entry as it was, and appends exactly one PENDING transaction (from the
\* wallet's address to `to`, amount a, token t) at the end of the history.
C1_TransferDebitsAndAppends ==
    [][ (/\ TransferStep
         /\ 0 < lastCall'.amount
         /\ lastCall'.amount <= getBalance(m_balances, lastCall'.token))
        => (/\ lastCall'.ret
            /\ getBalance(m_balances', lastCall'.token)
                 = getBalance(m_balances, lastCall'.token) - lastCall'.amount
            /\ \A t \in Tokens \ {lastCall'.token} :
                 /\ (t \in DOMAIN m_balances') = (t \in DOMAIN m_balances)
                 /\ getBalance(m_balances', t) = getBalance(m_balances, t)
            /\ Len(m_transactions') = Len(m_transactions) + 1
            /\ IsPrefix(m_transactions, m_transactions')
            /\ Last(m_transactions').status = "PENDING"
            /\ Last(m_transactions').from = m_mainAddress
            /\ Last(m_transactions').to = lastCall'.to
            /\ Last(m_transactions').amount = lastCall'.amount
            /\ Last(m_transactions').token = lastCall'.token) ]_vars

\* C1 witness: a transfer of a positive amount has succeeded and left a
\* positive balance of its token, next to another token the wallet holds.
C1_Witness ==
    /\ lastCall.op = "transfer" /\ lastCall.ret /\ lastCall.amount = 1
    /\ m_transactions # <<>>
    /\ Last(m_transactions).status = "PENDING"
    /\ getBalance(m_balances, lastCall.token) = 1
    /\ \E t \in DOMAIN m_balances : t # lastCall.token /\ m_balances[t] > 0

\* C2: on an initialized wallet, transfer with a > balance(t), a token the
\* wallet never held included, returns false logging the insufficient
\* balance and leaves the balance mapping (its key set too) and the history
\* unchanged.
C2_InsufficientBalanceRejected ==
    [][ (/\ TransferStep
         /\ lastCall'.amount > getBalance(m_balances, lastCall'.token))
        => (/\ ~lastCall'.ret
            /\ lastCall'.err = LOG_INSUFFICIENT_BALANCE
            /\ m_balances' = m_balances
            /\ m_transactions' = m_transactions) ]_vars

\* C2 witness: a transfer of a token the wallet has no entry for was
\* refused for insufficient balance, after an earlier transfer succeeded.
C2_Witness ==
    /\ lastCall.op = "transfer" /\ ~lastCall.ret
    /\ lastCall.err = LOG_INSUFFICIENT_BALANCE
    /\ lastCall.token \notin DOMAIN m_balances
    /\ m_isInitialized
    /\ m_transactions # <<>>

\* the log lines by which the code reports malformed input
ValidationErrorLogs == {LOG_INVALID_SEED}

\* C3 (as claimed): on an initialized wallet, transfer with amount <= 0
\* fails with a validation error and changes neither balances nor history.
C3_NonPositiveAmountRejected ==
    [][ (TransferStep /\ lastCall'.amount <= 0)
        => (/\ ~lastCall'.ret
            /\ lastCall'.err \in ValidationErrorLogs
            /\ m_balances' = m_balances
            /\ m_transactions' = m_transactions) ]_vars

\* C4: in every state reached by create, recoverFromSeed, transfer, donate
\* and synchronize calls (any amounts, zero and negative included) from a
\* wallet whose loaded balances are non-negative, every balance is >= 0.
C4_BalancesNonNegative ==
    \A t \in DOMAIN m_balances : m_balances[t] >= 0

\* C4 witness: a transfer has drawn a token's balance down to exactly zero
\* after a transfer of a negative amount had been accepted.
C4_Witness ==
    /\ Len(m_transactions) >= 2
    /\ m_transactions[1].amount < 0
    /\ Last(m_transactions).amount > 0
    /\ getBalance(m_balances, Last(m_transactions).token) = 0
    /\ lastCall.op \in {"transfer", "donate"} /\ lastCall.ret

\* C5 (as claimed): with two transfers running concurrently on one wallet,
\* no balance ever becomes negative, and for amounts a1, a2 <= b with
\* a1 + a2 > b on the same token at most one of the two calls succeeds.
C5_ConcurrentTransfersExclusive ==
    /\ \A t \in DOMAIN m_balances : m_balances[t] >= 0
    /\ (/\ \A th \in Threads : pc[th] = "done"
        /\ frame[1].token = frame[2].token
        /\ frame[1].amount <= getBalance(openingBalances, frame[1].token)
        /\ frame[2].amount <= getBalance(openingBalances, frame[2].token)
        /\ frame[1].amount + frame[2].amount
             > getBalance(openingBalances, frame[1].token))
       => ~(frame[1].ret /\ frame[2].ret)

\* C6 (as claimed): while a single transfer runs, a concurrent reader sees
\* the debit and the appended transaction together or not at all: in every
\* state the balance of each token plus the amounts in the history equals
\* the balance the wallet started with.
C6_DebitAndAppendAtomic ==
    (\E th \in Threads : \A other \in Threads \ {th} : pc[other] = "idle")
    => \A t \in Tokens :
         getBalance(m_balances, t) + SumAmounts(m_transactions, t)
           = getBalance(openingBalances, t)

\* C7 (as claimed): while no load, create or recoverFromSeed has returned
\* true, transfer, getSeedPhrase and synchronize fail as not initialized
\* and leave address, balances, history and both flags unchanged.
C7_UninitializedCallsFail ==
    [][ (/\ ~initSucceeded
         /\ lastCall'.op \in {"transfer", "getSeedPhrase", "synchronize"})
        => (/\ ~lastCall'.ret
            /\ lastCall'.err = LOG_NOT_INITIALIZED
            /\ lastCall'.out = ""
            /\ UNCHANGED walletVars) ]_vars

\* C8: create and recoverFromSeed on an initialized wallet return false
\* logging that the wallet is already initialized and leave the address,
\* every balance, the history and the synchronized flag unchanged.
C8_AlreadyInitializedRejected ==
    [][ (/\ lastCall'.op \in {"create", "recoverFromSeed"}
         /\ m_isInitialized)
        => (/\ ~lastCall'.ret
            /\ lastCall'.err = LOG_ALREADY_INITIALIZED
            /\ UNCHANGED <<m_mainAddress, m_balances, m_transactions,
                           m_isInitialized, m_isSynchronized, file>>) ]_vars

\* C8 witness: create or recoverFromSeed was refused on a synchronized
\* wallet that holds a non-zero balance and a transaction.
C8_Witness ==
    /\ lastCall.op \in {"create", "recoverFromSeed"}
    /\ lastCall.err = LOG_ALREADY_INITIALIZED
    /\ m_isSynchronized
    /\ m_transactions # <<>>
    /\ \E t \in DOMAIN m_balances : m_balances[t] > 0

\* C9 (as claimed): after create or recoverFromSeed returned true, every
\* token's balance is zero, the wallet is initialized and not synchronized
\* (getStatus says so) and the wallet file holds that state.
C9_CreatedWalletIsZeroed ==
    (lastCall.op \in {"create", "recoverFromSeed"} /\ lastCall.ret)
    => (/\ \A t \in DOMAIN m_balances : m_balances[t] = 0
        /\ m_isInitialized
        /\ ~m_isSynchronized
        /\ getStatus(m_isInitialized, m_isSynchronized)
             = "Not synchronized with the network"
        /\ file = Serialize(m_mainAddress, m_balances))

\* C10 (as claimed): when create or recoverFromSeed returns false because
\* the save failed, the wallet is still uninitialized and its address and
\* balances are as before the call.
C10_FailedCreateLeavesNoTrace ==
    [][ (/\ lastCall'.op \in {"create", "recoverFromSeed"}
         /\ ~lastCall'.ret
         /\ lastCall'.err = LOG_SAVE_FAILED)
        => (/\ ~m_isInitialized'
            /\ m_mainAddress' = m_mainAddress
            /\ m_balances' = m_balances) ]_vars

(***************************************************************************)
(* Seed phrases                                                            *)
(***************************************************************************)
\* a recoverFromSeed(w) call on a wallet that is not yet initialized
RecoverStep(w) == ~m_isInitialized /\ RecoverFromSeed(w)

\* C11: recoverFromSeed on an uninitialized wallet with a phrase that does
\* not hold exactly 12 words (none, fewer, more) returns false with the
\* invalid-seed error, and the wallet stays uninitialized with its address,
\* balances, history and file as they were.
C11_WrongWordCountRejected ==
    [][ \A w \in SeedPhrases :
          (Len(w) # SEED_WORD_COUNT /\ RecoverStep(w))
          => (/\ ~lastCall'.ret
              /\ lastCall'.err \in ValidationErrorLogs
              /\ ~m_isInitialized'
              /\ m_mainAddress' = m_mainAddress
              /\ m_balances' = m_balances
              /\ UNCHANGED <<m_transactions, m_isSynchronized, file>>) ]_vars

\* a phrase of the wrong length was refused by a wallet that a failed load
\* had left with a balance
C11_Witness ==
    /\ lastCall.op = "recoverFromSeed"
    /\ lastCall.err = LOG_INVALID_SEED
    /\ ~lastCall.ret
    /\ ~m_isInitialized
    /\ \E t \in DOMAIN m_balances : m_balances[t] > 0

\* C12 (as claimed): recoverFromSeed on an uninitialized wallet with a
\* 12-word phrase holding a word outside the dictionary returns false with
\* the invalid-seed error and leaves the wallet uninitialized.
C12_UnknownWordRejected ==
    [][ \A w \in SeedPhrases :
          (/\ RecoverStep(w)
           /\ Len(w) = SEED_WORD_COUNT
           /\ \E i \in 1..Len(w) : w[i] \notin SEED_WORDS)
          => (/\ ~lastCall'.ret
              /\ lastCall'.err \in ValidationErrorLogs
              /\ ~m_isInitialized') ]_vars

\* C13 (as claimed): a blob made by encryptSeed with one password is not
\* decrypted by decryptSeed with a different password (the call fails), and
\* getSeedPhrase called with a password other than the wallet's fails and
\* returns no phrase.
C13_WrongPasswordFails ==
    /\ (vault.op = "decryptSeed" /\ vault.tried # vault.password)
       => (~vault.ret /\ vault.out # vault.seed)
    /\ (lastCall.op = "getSeedPhrase" /\ lastCall.to # WalletPassword)
       => (~lastCall.ret /\ lastCall.out = "")

\* C14 (as claimed): once recoverFromSeed(p) has returned true, getSeedPhrase
\* with the wallet's password returns exactly the text of p.
C14_SeedRoundTrip ==
    [][ \A w \in SeedPhrases :
          (RecoverStep(w) /\ lastCall'.ret)
          => getSeedPhrase(m_isInitialized', WalletPassword) = Join(w) ]_vars

(***************************************************************************)
(* Transactions                                                            *)
(***************************************************************************)
TerminalStatus == {"CONFIRMED", "FAILED"}

\* C15 (as claimed): the status of a transaction only ever changes from
\* Pending to Confirmed or from Pending to Failed; a Confirmed or Failed
\* transaction keeps its status for good.
C15_StatusMonotonic ==
    [][ (tx # NoTransaction /\ tx'.status # tx.status)
        => (tx.status = "PENDING" /\ tx'.status \in TerminalStatus) ]_vars

\* C16 (as claimed): sign on a Confirmed or Failed transaction returns false
\* and leaves the signature as it was.
C16_SignTerminalRejected ==
    [][ (txCall'.op = "sign" /\ tx.status \in TerminalStatus)
        => (~txCall'.ret /\ tx'.signature = tx.signature) ]_vars

\* C17: verifySignature returns true on a transaction on which sign has
\* returned true, and false on a transaction that was never signed.
C17_VerifyAfterSign ==
    /\ (tx # NoTransaction) => (verifySignature(tx.signature) <=> txSigned)
    /\ (txCall.op = "verifySignature") => (txCall.ret <=> txSigned)
    /\ (txCall.op = "sign") => (txCall.ret /\ verifySignature(tx.signature))

\* verifySignature has answered true on a signed transaction whose status
\* was changed after the signing
C17_Witness ==
    /\ txCall.op = "verifySignature"
    /\ txCall.ret
    /\ txSigned
    /\ tx.signature = Signature(tx.id)
    /\ tx.status = "CONFIRMED"

\* C18 (as claimed): no two transactions of the wallet's history have the
\* same id, however many transfers were made.
C18_TransactionIdsUnique ==
    \A i, j \in 1..Len(m_transactions) :
        (i # j) => (m_transactions[i].id # m_transactions[j].id)

(***************************************************************************)
(* Synchronization                                                         *)
(***************************************************************************)
\* C19: a startSync made while status = Syncing (from inside a progress
\* callback) returns false with the already-in-progress warning, and
\* status, progress, both heights, the endpoint, the registered callback
\* and the syncing flag are as before the call; no run is started.
C19_StartWhileSyncingRejected ==
    [][ \A callback \in Callbacks \cup {NullCallback} :
          (StartSync(callback) /\ m_status = "SYNCING")
          => (/\ ~syncCall'.ret
              /\ syncCall'.op = "startSync"
              /\ syncCall'.err = LOG_ALREADY_SYNCING
              /\ UNCHANGED <<m_status, m_progress, m_latestBlockHeight,
                             m_currentBlockHeight, m_networkEndpoint, m_callback,
                             m_isSyncing, stack>>) ]_vars

\* a startSync with another callback than the registered one was refused
\* inside a callback, half way through a run
C19_Witness ==
    /\ syncCall.op = "startSync"
    /\ ~syncCall.ret
    /\ syncCall.err = LOG_ALREADY_SYNCING
    /\ InCallback
    /\ m_status = "SYNCING"
    /\ syncCall.arg \in Callbacks
    /\ m_callback \in Callbacks \ {syncCall.arg}
    /\ m_currentBlockHeight = 200
    /\ m_latestBlockHeight = 250

\* ceil(L / B)
BatchCount(L) == (L + batchSize - 1) \div batchSize

\* a startSync that ran with a callback in place and latest height L > 0,
\* was never stopped and has returned
UndisturbedRun ==
    /\ syncCall.op = "startSync"
    /\ syncCall.ret
    /\ ~syncCall.stopped
    /\ syncCall.callback # NullCallback
    /\ syncCall.latest > 0

\* the k-th callback invocation reports height min(k*B, L), progress
\* min(k*B, L)/L
BatchNotice(k, L) ==
    Notice(Frac(Min(k * batchSize, L), L), ProcessedMessage(Min(k * batchSize, L)),
           Min(k * batchSize, L))

FracLeq(p, q) == p.num * q.den <= q.num * p.den

\* the callback is about to be invoked for a batch: an observable state with
\* status = Syncing follows
BatchNoticeStep == ProcessBatch /\ Top.height < m_latestBlockHeight
                                /\ m_callback # NullCallback

\* C21 (as claimed): over any sequence of startSync and stopSync calls, from
\* one observable state with status = Syncing to the next one, progress does
\* not decrease: neither from one callback invocation of a run to the next,
\* nor from the last callback invocation of a run that has returned to the
\* first one of the startSync that follows it.
C21_ProgressNeverDecreases ==
    [][ BatchNoticeStep
        => (/\ m_status = "SYNCING" /\ m_status' = "SYNCING"
            /\ (Top.log # <<>>) => FracLeq(Last(Top.log).progress, m_progress')
            /\ (/\ Top.log = <<>>
                /\ Len(stack) = 1
                /\ syncCall.op = "startSync"
                /\ syncCall.ret
                /\ syncCall.log # <<>>)
               => FracLeq(Last(syncCall.log).progress, m_progress')) ]_vars

\* C22 (as claimed): in every state a caller or a progress callback can
\* observe, progress = 1.0 implies status = Synced and the syncing flag off.
C22_FullProgressMeansSynced ==
    (CallerActive /\ m_progress = One)
    => (m_status = "SYNCED" /\ ~m_isSyncing)

\* a startSync step whose run was not stopped returns
UnstoppedReturn == StartSyncReturn /\ ~Top.stopped

C24_StopWhenIdleRejected ==
    [][ (StopSync /\ m_status \in {"NOT_SYNCED", "SYNCED"})
        => (/\ ~syncCall'.ret
            /\ syncCall'.op = "stopSync"
            /\ syncCall'.err = LOG_NOT_SYNCING
            /\ UNCHANGED <<m_status, m_progress, m_latestBlockHeight,
                           m_currentBlockHeight, m_isSyncing, m_networkEndpoint,
                           m_callback, stack>>) ]_vars

\* stopSync was refused on an engine that had completed a run
C24_Witness ==
    /\ syncCall.op = "stopSync"
    /\ ~syncCall.ret
    /\ syncCall.err = LOG_NOT_SYNCING
    /\ m_status = "SYNCED"
    /\ m_progress = One
    /\ m_currentBlockHeight = 250
    /\ stack = <<>>

\* a run returns whose callback called stopSync with success, that stopSync
\* being the last call made on the engine
StoppedReturn ==
    /\ StartSyncReturn
    /\ Top.stopped
    /\ Top.log # <<>>
    /\ syncCall.op = "stopSync"
    /\ syncCall.ret

\* C25 (as claimed): when a run that was stopped returns, status is Synced
\* if the final batch had been processed (current height = latest height)
\* when stopSync was called, and NotSynced if it had not.
C25_StatusAfterStop ==
    [][ StoppedReturn
        => (m_status' = IF Last(Top.log).height = Top.latest THEN "SYNCED"
                                                             ELSE "NOT_SYNCED") ]_vars

\* C26: cancellation is seen only between batches.  When stopSync succeeds
\* inside the callback of batch k, that batch is complete (the current
\* height is the batch's end); and an activation that has been stopped never
\* starts another batch and never invokes the callback again: its loop
\* variable and its callback invocations stay as they are until it returns.
C26_CancelAtBatchBoundary ==
    [][ /\ (StopSync /\ syncCall'.ret /\ stack # <<>> /\ Top.pc = "callback")
           => (/\ m_currentBlockHeight = BatchEnd(Top.height, Top.latest)
               /\ m_currentBlockHeight = Last(Top.log).height
               /\ UNCHANGED m_currentBlockHeight)
        /\ \A i \in DOMAIN stack :
              (stack[i].stopped /\ i \in DOMAIN stack')
              => (/\ stack'[i].log = stack[i].log
                  /\ stack'[i].height = stack[i].height
                  /\ stack'[i].pc # "loop"
                  /\ stack'[i].pc \notin {"callback", "finalCallback"}
                     \/ stack'[i].pc = stack[i].pc) ]_vars

\* a run stopped inside the callback of its second batch of three has
\* returned: two callback invocations, the current height at that batch's end
C26_Witness ==
    /\ syncCall.op = "startSync"
    /\ syncCall.ret
    /\ syncCall.stopped
    /\ syncCall.latest = 250
    /\ Len(syncCall.log) = 2
    /\ syncCall.log[2].height = 200
    /\ m_currentBlockHeight = 200
    /\ m_latestBlockHeight = 250
    /\ m_status = "NOT_SYNCED"
    /\ stack = <<>>

\* C27 (as claimed): the only status changes are NotSynced -> Syncing,
\* Syncing -> Synced and Syncing -> NotSynced.
C27_StatusTransitionsStrict ==
    [][ (m_status' # m_status)
        => (<<m_status, m_status'>> \in {<<"NOT_SYNCED", "SYNCING">>,
                                         <<"SYNCING", "SYNCED">>,
                                         <<"SYNCING", "NOT_SYNCED">>}) ]_vars

\* C27 (amended): the only status changes are NotSynced -> Syncing and
\* Synced -> Syncing, made by a startSync that starts a run; Syncing ->
\* NotSynced, made by a successful stopSync; Syncing -> Synced, made when a
\* run completes; and NotSynced -> Synced, made when a run completes whose
\* completion callback had called stopSync.  Status never goes from Synced
\* to NotSynced.
C27_StatusTransitions ==
    [][ (m_status' # m_status)
        => (\/ /\ m_status \in {"NOT_SYNCED", "SYNCED"}
               /\ m_status' = "SYNCING"
               /\ \E callback \in Callbacks \cup {NullCallback} : StartSync(callback)
            \/ /\ m_status = "SYNCING"
               /\ m_status' = "NOT_SYNCED"
               /\ StopSync
               /\ syncCall'.ret
            \/ /\ m_status = "SYNCING"
               /\ m_status' = "SYNCED"
               /\ Complete
            \/ /\ m_status = "NOT_SYNCED"
               /\ m_status' = "SYNCED"
               /\ Complete
               /\ Top.stopped) ]_vars

\* a second startSync has taken a Synced engine back to Syncing: the last
\* call that returned was a run that ended Synced, and a run is in progress
C27_Witness ==
    /\ syncCall.op = "startSync"
    /\ syncCall.ret
    /\ syncCall.status = "SYNCED"
    /\ Len(stack) = 1
    /\ Top.log = <<>>
    /\ m_status = "SYNCING"

\* the activations whose callback invocation has not returned yet
ExecutingCallbacks ==
    {i \in DOMAIN stack : stack[i].pc \in {"callback", "finalCallback"}}

\* C28 (as claimed): callback invocations of one engine are never nested,
\* also when a callback calls stopSync and then startSync: no callback
\* invocation begins while another one of the engine has not returned.
C28_CallbacksNeverNested ==
    Cardinality(ExecutingCallbacks) <= 1

\* C29 (as claimed): when an initialized wallet was saved (by its
\* destructor) and a fresh wallet is constructed on the file, the fresh
\* wallet has the same address and the same balance mapping, token for
\* token and amount for amount.
C29_SaveLoadRoundTrip ==
    [][ (Construct /\ m_isInitialized /\ lastCall.ret)
        => (/\ m_isInitialized'
            /\ m_mainAddress' = m_mainAddress
            /\ m_balances' = m_balances) ]_vars

\* C30 (as claimed): loading an existing wallet file fails with the format
\* error when its first line is not exactly LUMINA_WALLET_DATA; when the
\* header matches, the load succeeds whatever the lines after it are.
C30_LoadFormat ==
    (lastCall.op = "Wallet" /\ file.exists)
    => (/\ (file.header # WALLET_HEADER)
              => (~lastCall.ret /\ lastCall.err = LOG_INVALID_FORMAT
                  /\ ~m_isInitialized)
        /\ (file.header = WALLET_HEADER)
              => (lastCall.ret /\ m_isInitialized))

\* C31 (as claimed): once a successful transfer (of a positive amount) has
\* returned, the wallet file holds the in-memory balances: a wallet
\* constructed on the file right then (the process stopped without running
\* the destructor) has the balances the transfer left, the debit included.
C31_TransferPersisted ==
    (lastCall.op = "transfer" /\ lastCall.ret /\ lastCall.amount > 0)
    => (/\ file.exists
        /\ loadWallet(file, "", EmptyBalances).balances = m_balances)

\* C40 (as claimed): a wallet whose construction could not load the file
\* (no file, a foreign header, a BALANCE line std::stod rejects) has an
\* empty address and an empty balance mapping.
C40_FailedLoadLeavesEmptyWallet ==
    (lastCall.op \in {"none", "Wallet"} /\ ~m_isInitialized)
    => (m_mainAddress = "" /\ m_balances = EmptyBalances)

\* C32 (as claimed): getBalance returns normally, with 0 for a token the
\* wallet has no entry for and the entry's amount otherwise, whether or
\* not the wallet is initialized, and it leaves every member and the file
\* as they were: the token asked for is not added to the balance mapping.
C32_GetBalanceIsPure ==
    [][ \A token \in QueryTokens :
          GetBalance(token)
          => (/\ lastCall'.ret /\ lastCall'.err = LOG_NONE
              /\ (token \notin DOMAIN m_balances) => lastCall'.amount = 0
              /\ (token \in DOMAIN m_balances)
                    => lastCall'.amount = m_balances[token]
              /\ DOMAIN m_balances' = DOMAIN m_balances
              /\ UNCHANGED <<file, walletVars>>) ]_vars

\* a query for a token without an entry was answered, on an uninitialized
\* wallet that holds a balance of another token
C32_Witness ==
    /\ lastCall.op = "getBalance" /\ lastCall.amount = 0
    /\ lastCall.token \notin DOMAIN m_balances
    /\ ~m_isInitialized
    /\ m_balances # EmptyBalances

\* C33 (as claimed): a synchronize call on an initialized wallet sets the
\* synchronized flag only when the engine's run has completed (status
\* Synced) and changes no balance and no history entry; a balance changes
\* only in a successful transfer.
C33_SynchronizeAfterEngineRun ==
    [][ /\ (Synchronize /\ m_isInitialized)
            => (/\ m_isSynchronized' => m_status' = "SYNCED"
                /\ UNCHANGED <<m_balances, m_transactions>>)
        /\ (\E t \in Tokens : getBalance(m_balances', t) # getBalance(m_balances, t))
            => (lastCall'.op = "transfer" /\ lastCall'.ret) ]_vars

\* what a caller sees of a transfer or donate call: the result, the line
\* logged, the balances and the history it leaves
Outcome(ret, err, balances, txs) ==
    /\ lastCall'.ret = ret
    /\ lastCall'.err = err
    /\ m_balances' = balances
    /\ m_transactions' = txs

\* the outcomes compared: success or failure with each log line, the
\* balances as they are or debited by the amount on one token, the
\* history as it is or with one transaction of that amount appended
OutcomeLogs == {LOG_NONE, LOG_NOT_INITIALIZED, LOG_INSUFFICIENT_BALANCE}
OutcomeBalances(amount) ==
    {m_balances} \cup {Debit(m_balances, t, amount) : t \in Tokens}
OutcomeHistories(amount) ==
    {m_transactions}
    \cup {Append(m_transactions, NewTransaction(id, m_mainAddress, to, amount, t)) :
            id \in TxIds, to \in Recipients \cup {DEV_TEAM_ADDRESS}, t \in Tokens}

\* C34: from every wallet state and for every amount, donate(amount) can
\* end in exactly the outcomes transfer(developmentAddress, amount, "LMT")
\* can end in: the same result and log line, the same balances, the same
\* appended transaction (to the development address), and no other.
C34_DonateIsTransfer ==
    \A amount \in Amounts :
        /\ \A ret \in BOOLEAN, err \in OutcomeLogs :
              (ENABLED (Donate(amount) /\ lastCall'.ret = ret /\ lastCall'.err = err))
              <=> (ENABLED (/\ Transfer(DEV_TEAM_ADDRESS, amount, DEFAULT_TOKEN)
                            /\ lastCall'.ret = ret /\ lastCall'.err = err))
        /\ \A ret \in BOOLEAN, balances \in OutcomeBalances(amount),
              txs \in OutcomeHistories(amount) :
              (ENABLED (Donate(amount) /\ lastCall'.ret = ret
                        /\ m_balances' = balances /\ m_transactions' = txs))
              <=> (ENABLED (/\ Transfer(DEV_TEAM_ADDRESS, amount, DEFAULT_TOKEN)
                            /\ lastCall'.ret = ret
                            /\ m_balances' = balances /\ m_transactions' = txs))
        /\ ~ ENABLED (/\ Donate(amount)
                       /\ ~ \E ret \in BOOLEAN, err \in OutcomeLogs,
                              balances \in OutcomeBalances(amount),
                              txs \in OutcomeHistories(amount) :
                              Outcome(ret, err, balances, txs))

\* a donation of a positive amount succeeded: its transaction, to the
\* development address, ends the history
C34_Witness ==
    /\ lastCall.op = "donate" /\ lastCall.ret /\ lastCall.amount > 0
    /\ m_transactions # <<>>
    /\ Last(m_transactions).to = DEV_TEAM_ADDRESS
    /\ Last(m_transactions).token = DEFAULT_TOKEN
    /\ Last(m_transactions).amount = lastCall.amount

\* C36: over any sequence of wallet operations the history before a step
\* is a prefix of the history after it (no entry is removed, reordered or
\* changed in its id, sender, recipient, amount or token), and it grows
\* only in a successful transfer (donate is one), by exactly one entry.
C36_HistoryAppendOnly ==
    [][ /\ IsPrefix(m_transactions, m_transactions')
        /\ Len(m_transactions') <= Len(m_transactions) + 1
        /\ (m_transactions' # m_transactions)
             => (/\ lastCall'.op \in {"transfer", "donate"}
                 /\ lastCall'.ret
                 /\ Len(m_transactions') = Len(m_transactions) + 1)
        /\ (lastCall'.op \notin {"transfer", "donate"} \/ ~lastCall'.ret)
             => m_transactions' = m_transactions ]_vars

\* a second transaction was appended behind a different first one, after
\* which a transfer was refused
C36_Witness ==
    /\ Len(m_transactions) = 2
    /\ m_transactions[1] # m_transactions[2]
    /\ lastCall.op = "transfer" /\ ~lastCall.ret

\* C39: within a wallet's lifetime, whatever calls succeeded or failed,
\* every token's balance is the balance the wallet had when it became
\* initialized minus the amounts of the token's transactions in the
\* history.
C39_BalanceConservation ==
    m_isInitialized
    => \A t \in Tokens :
         getBalance(m_balances, t)
           = getBalance(openingBalances, t) - SumAmounts(m_transactions, t)

\* two transfers of the same token were made from a wallet that opened
\* with a positive balance of it, and a later call failed
C39_Witness ==
    /\ m_isInitialized
    /\ Len(m_transactions) = 2
    /\ m_transactions[1].token = m_transactions[2].token
    /\ m_transactions[1].amount > 0 /\ m_transactions[2].amount > 0
    /\ getBalance(openingBalances, m_transactions[1].token) > 0
    /\ ~lastCall.ret

\* C37: in every state the engine reaches, the processed height is at most
\* the latest known height and the progress lies between 0 and 1; right
\* after a batch was processed the progress is current height / latest
\* height.
C37_HeightAndProgressBounds ==
    [][ /\ m_currentBlockHeight' <= m_latestBlockHeight'
        /\ 0 <= m_progress'.num /\ 0 < m_progress'.den
        /\ m_progress'.num <= m_progress'.den
        /\ BatchNoticeStep
             => (m_progress'.num * m_latestBlockHeight'
                   = m_currentBlockHeight' * m_progress'.den) ]_vars

\* the second of three batches was processed in a run started after an
\* earlier run had returned
C37_Witness ==
    /\ stack # <<>> /\ Top.pc \in {"callback", "sleep"}
    /\ m_latestBlockHeight = 250 /\ m_currentBlockHeight = 200
    /\ m_progress = Frac(200, 250)
    /\ syncCall.op = "startSync" /\ syncCall.ret

\* C38: whenever a caller or a progress callback can look at the engine,
\* isSyncing is true exactly when the status is Syncing.
C38_IsSyncingIffSyncing ==
    CallerActive => (m_isSyncing <=> (m_status = "SYNCING"))

\* inside a progress callback that has stopped the run and started a new
\* one, whose own callback is executing: the new run is syncing
C38_Witness ==
    /\ Len(stack) = 2 /\ InCallback
    /\ stack[1].stopped /\ ~Top.stopped
    /\ m_isSyncing /\ m_status = "SYNCING"

====
